---- MODULE Spec2Model ----
(***************************************************************************)
(* The installation engine of the dna::}{::lang package manager.           *)
(*                                                                         *)
(* Two programs share one state file (~/.dna/config.json):                 *)
(*   src/src/dna_cli.py          splice_package(name, config)   "cli"      *)
(*   src/src/dna_pkg_manager.py  cmd_splice(package_name)       "pkg"      *)
(* Each top-level call is one run of one of the programs.  A run walks the *)
(* dependency list recursively (an explicit call stack here), fetches the  *)
(* package's files and records the package in the "spliced" list.          *)
(*                                                                         *)
(* splice_package passes ONE config object down the recursion (a reference *)
(* into `heap`); cmd_splice calls load_config() again in every recursive   *)
(* call, so every frame owns a separate object.  dna_cli.py also has the   *)
(* global install (install_global), a loop of splice_package calls over    *)
(* DNALANG_FULL on one config object.  An exception nothing catches (of    *)
(* load_config, save_config, or RecursionError) ends the run.              *)
(***************************************************************************)
EXTENDS Naturals, Sequences, FiniteSets, TLC

\* Number of top-level runs of a program in one behaviour.
MaxCalls == 2

\* Number of top-level runs in one behaviour of the specification with
\* fairness (FairSpec).
MaxFairCalls == 1

\* The depth of nested calls at which the interpreter raises RecursionError
\* (sys.getrecursionlimit(), scaled down).
RecursionLimit == 5

(***************************************************************************)
(* Paths.  A relative file path is kept as its directory part, stem and    *)
(* suffix, so that Path(p).name, Path(p).stem and p.endswith(".dna") are   *)
(* computed and not assumed.                                               *)
(***************************************************************************)
File(d, s, x) == [dirs |-> d, stem |-> s, suffix |-> x]

NoFile == File(<<>>, "", "")

\* Path(file_path).name : the last component, directories dropped.
PathName(p) == [stem |-> p.stem, suffix |-> p.suffix]

\* Path(file_path).stem
PathStem(p) == p.stem

\* file_path.endswith(".dna")
EndsWithDna(p) == p.suffix = ".dna"

(***************************************************************************)
(* The package catalog (PACKAGES): name -> files, deps.  The catalog is    *)
(* configuration data; this one has the shapes of the shipped catalogs (no *)
(* dependency, one dependency, two dependencies, two files, a file in a    *)
(* sub-directory, a .dna file) and the shapes the engine must cope with:   *)
(* a shared dependency (P -> D1, D2 -> E), a dependency that is no key of  *)
(* the catalog (U -> ghost), an empty file list (Z) and a dependency cycle *)
(* (X -> Y -> X), which nothing in the code rules out.                     *)
(***************************************************************************)
PACKAGES ==
    [n \in {"E", "D1", "D2", "P", "A", "U", "Z", "X", "Y"} |->
        CASE n = "E"  -> [files |-> <<File(<<>>, "e", ".py")>>, deps |-> <<>>]
          [] n = "D1" -> [files |-> <<File(<<>>, "d1", ".py")>>, deps |-> <<"E">>]
          [] n = "D2" -> [files |-> <<File(<<>>, "d2", ".py")>>, deps |-> <<"E">>]
          [] n = "P"  -> [files |-> <<File(<<"pkg">>, "p", ".py")>>,
                          deps |-> <<"D1", "D2">>]
          [] n = "A"  -> [files |-> <<File(<<>>, "a", ".py"), File(<<"org">>, "a", ".dna")>>,
                          deps |-> <<>>]
          [] n = "U"  -> [files |-> <<File(<<>>, "u", ".py")>>, deps |-> <<"ghost">>]
          [] n = "Z"  -> [files |-> <<>>, deps |-> <<"E">>]
          [] n = "X"  -> [files |-> <<File(<<>>, "x", ".py")>>, deps |-> <<"Y">>]
          [] n = "Y"  -> [files |-> <<File(<<>>, "y", ".py")>>, deps |-> <<"X">>]]

\* The full suite (DNALANG_FULL): the names install_global installs, in order.
DNALANG_FULL == <<"E", "D1">>

\* The command-line word of the global install, `dna -i -g dna::}{::lang`.
SIGMA_S == "dna::}{::lang"

\* The names a user can type: every key of the catalog and one that is none.
Names == DOMAIN PACKAGES \cup {"ghost"}

\* The directories under ~/.dna
DNA_DIR == "dna"
LIB_DIR == "lib"
BIN_DIR == "bin"
ORGANISMS_DIR == "organisms"

\* The two sources a file is fetched from.
Endpoints == {"registry", "github"}

(***************************************************************************)
(* State.                                                                  *)
(***************************************************************************)
VARIABLES
    engine,     \* which program runs: "cli" or "pkg"
    disk,       \* CONFIG_FILE: [state: "absent" | "ok" | "corrupt", spliced]
    dirs,       \* the directories that exist
    lib,        \* the fetched files: [dir, name]
    bin,        \* the symlinks in BIN_DIR (by stem)
    heap,       \* the config objects of the running call
    stack,      \* the frames of splice_package / cmd_splice, innermost last
    result,     \* of the last top-level call: "none", "running", "True", "False", "done", "crash"
    calls,      \* top-level calls made
    current,    \* history: name and starting state of the running/last top-level call
    prev,       \* history: name and result of the top-level call before it
    log,        \* history: what the running/last top-level call did
    glob,       \* install_global: [active, k (loop position), success_count]
    initial,    \* history: CONFIG_FILE before the first run
    runs        \* the number of top-level calls this behaviour may make

vars == <<engine, disk, dirs, lib, bin, heap, stack, result, calls, current, prev, log,
          glob, initial, runs>>

(***************************************************************************)
(* Helpers.                                                                *)
(***************************************************************************)
\* x in list
InList(x, s) == \E k \in 1..Len(s) : s[k] = x

ToSet(s) == {s[k] : k \in 1..Len(s)}

\* An entry of the log.  depth: the depth of the frame that acts (for a call
\* and a return, the callee's).
Ev(op, pkg, path, ep, ok, depth) ==
    [op |-> op, pkg |-> pkg, path |-> path, ep |-> ep, ok |-> ok, depth |-> depth]

CallEv(n, d) == Ev("call", n, NoFile, "", TRUE, d)

RetEv(n, r, d) == Ev("ret", n, NoFile, "", r, d)

LoadEv(n, d) == Ev("load", n, NoFile, "", TRUE, d)

SaveEv(n, d) == Ev("save", n, NoFile, "", TRUE, d)

\* An exception nothing catches: what is "load", "save" or "recursion".
RaiseEv(n, what, d) == Ev("raise", n, NoFile, what, FALSE, d)

Top == stack[Len(stack)]

SetTop(f) == [stack EXCEPT ![Len(stack)] = f]

BoolStr(b) == IF b THEN "True" ELSE "False"

\* A fresh frame of splice_package / cmd_splice for package n, using config
\* object c.  History: got, the indices of the files this frame fetched; at,
\* the position of the frame's call in the log; had, the names recorded in its
\* config when it started.
NewFrame(n, c, at, had) ==
    [name |-> n, pc |-> "deps", i |-> 1, j |-> 1, success |-> TRUE, cfg |-> c,
     got |-> {}, at |-> at, had |-> had]

(***************************************************************************)
(* State Store.                                                            *)
(***************************************************************************)
\* The config object: only the "spliced" list matters to the engine.
DefaultConfig == [spliced |-> <<>>]

\* load_config(): the parsed file if it exists, the defaults otherwise.
load_config == IF disk.state = "ok" THEN [spliced |-> disk.spliced] ELSE DefaultConfig

\* json.load raises on a file that is no JSON document; nothing catches it.
LoadRaises == disk.state = "corrupt"

\* What a save_config(config) leaves in CONFIG_FILE.  io is what the file
\* system does: "ok"; "raise" (mkdir or open fails, the file is untouched);
\* "torn" (open(.., "w") truncated the file and the write failed).
SaveOutcomes == {"ok", "raise", "torn"}

\* Faulty variant: the write is skipped.
save_config_skipped(config, io) == disk

save_config(config, io) ==
    CASE io = "ok"    -> [state |-> "ok", spliced |-> config.spliced]
      [] io = "torn"  -> [state |-> "corrupt", spliced |-> <<>>]
      [] io = "raise" -> disk

\* Faulty variant: a failed write is swallowed and the caller goes on.
SaveRaises_swallowed(io) == FALSE

\* save_config raises when the file system fails; nothing catches it.
SaveRaises(io) == io # "ok"

\* ensure_dirs() of dna_cli.py
ensure_dirs == {DNA_DIR, LIB_DIR, BIN_DIR, ORGANISMS_DIR}

\* The two mkdir(parents=True) of cmd_splice
cmd_splice_mkdirs == {DNA_DIR, LIB_DIR, ORGANISMS_DIR}

(***************************************************************************)
(* Source Fetcher.  net[ep] is whether the endpoint serves the file now    *)
(* (fetch_file returns True) or urlretrieve raises URLError (False).       *)
(***************************************************************************)
Attempt(ep, ok) == [ep |-> ep, ok |-> ok]

\* Faulty variant: GitHub is tried first, the registry is the fallback.
cli_fetch_github_first(net) ==
    IF net["github"] THEN <<Attempt("github", TRUE)>>
    ELSE <<Attempt("github", FALSE), Attempt("registry", net["registry"])>>

\* dna_cli.py: the registry first, GitHub only when the registry failed.
cli_fetch(net) ==
    IF net["registry"] THEN <<Attempt("registry", TRUE)>>
    ELSE <<Attempt("registry", FALSE), Attempt("github", net["github"])>>

\* dna_pkg_manager.py: the registry only.
pkg_fetch(net) == <<Attempt("registry", net["registry"])>>

\* The file was fetched iff the last attempt made succeeded.
Fetched(att) == att[Len(att)].ok

FetchEvs(n, path, att) ==
    [k \in 1..Len(att) |-> Ev("fetch", n, path, att[k].ep, att[k].ok, Len(stack))]

\* Where a fetched file is written.
cli_dest(path) == [dir |-> LIB_DIR, name |-> PathName(path)]

pkg_dest(path) ==
    IF EndsWithDna(path) THEN [dir |-> ORGANISMS_DIR, name |-> PathName(path)]
    ELSE [dir |-> LIB_DIR, name |-> PathName(path)]

(***************************************************************************)
(* Calls and returns.                                                      *)
(***************************************************************************)
\* `if name not in PACKAGES: return False`
UnknownPackage(n) == n \notin DOMAIN PACKAGES

\* Faulty variant: the test is inverted, recorded dependencies are the ones installed.
DepMissing_inverted(dep, config) == InList(dep, config.spliced)

\* Faulty variant: a dependency that is being installed further up the call
\* chain is not installed again (a cycle is cut).
DepMissing_cycle_cut(dep, config) ==
    /\ ~InList(dep, config.spliced)
    /\ \A s \in 1..Len(stack) : stack[s].name # dep

\* `if dep not in config.get("spliced", [])`
DepMissing(dep, config) == ~InList(dep, config.spliced)

\* Faulty variant: the name is appended without looking.
NotRecorded_unchecked(n, config) == TRUE

\* `if name not in config.get("spliced", [])` before the append
NotRecorded(n, config) == ~InList(n, config.spliced)

\* Faulty variant: a failed file never clears the flag.
FileResult_never_cleared(success, fetched) == success

\* Faulty variant: the flag is the result of the last file alone.
FileResult_last_file(success, fetched) == fetched

\* The flag `success` after a file: `success = False` when the file could not
\* be fetched, left alone when it could.
FileResult(success, fetched) == IF fetched THEN success ELSE FALSE

\* Faulty variant: ensure_dirs() runs before the name is looked up.
splice_package_entry_dirs_eager(n) == dirs \cup ensure_dirs

\* The directories after the entry of splice_package(n): ensure_dirs() runs
\* after the unknown-package return.
splice_package_entry_dirs(n) == IF UnknownPackage(n) THEN dirs ELSE dirs \cup ensure_dirs

\* Faulty variant: the package is recorded together with its declared dependencies.
Recorded_with_deps(config, n) ==
    [config EXCEPT !.spliced = Append(@, n) \o PACKAGES[n].deps]

\* `config.setdefault("spliced", []).append(name)`
Recorded(config, n) == [config EXCEPT !.spliced = Append(@, n)]

\* Faulty variant: the file loop stops at the first file that fails.
NextFileIndex_break(f, fetched) ==
    IF fetched THEN f.j + 1 ELSE Len(PACKAGES[f.name].files) + 1

\* The file loop goes on to the next file, fetched or not (`continue`).
NextFileIndex(f, fetched) == f.j + 1

\* Faulty variant: every package is counted.
install_global_count_all(count, r) == count + 1

\* `if splice_package(pkg, config): success_count += 1`
install_global_count(count, r) == IF r THEN count + 1 ELSE count

\* Faulty variant: the loop over the suite stops at the first failure.
install_global_next_break(k, r) == IF r THEN k + 1 ELSE Len(DNALANG_FULL) + 1

\* `for pkg in DNALANG_FULL`: on to the next name whatever the result.
install_global_next(k, r) == k + 1

\* The top-level call starts: what the history variables remember.
Begin(n) ==
    /\ calls' = calls + 1
    /\ prev' = [name |-> current.name, result |-> result]
    /\ current' = [name |-> n, disk |-> disk, dirs |-> dirs, lib |-> lib, bin |-> bin]

\* An exception nothing catches ends the run.
Crash(d) ==
    /\ disk' = d
    /\ stack' = <<>>
    /\ result' = "crash"
    /\ glob' = [glob EXCEPT !.active = FALSE]

\* The innermost call returns r: to its caller's loop (which ignores r), to
\* the loop of install_global (which counts it), or to main.
Return(r) ==
    IF Len(stack) > 1
    THEN /\ stack' = Append(SubSeq(stack, 1, Len(stack) - 2),
                            [stack[Len(stack) - 1] EXCEPT !.i = @ + 1])
         /\ UNCHANGED <<result, glob>>
    ELSE IF glob.active
    THEN /\ stack' = <<>>
         /\ glob' = [glob EXCEPT !.k = install_global_next(@, r),
                                 !.success_count = install_global_count(@, r)]
         /\ UNCHANGED result
    ELSE /\ stack' = <<>>
         /\ result' = BoolStr(r)
         /\ UNCHANGED glob

(***************************************************************************)
(* dna_cli.py                                                              *)
(***************************************************************************)
\* CONFIG_FILE before the first run: not there, or left by a program with
\* another catalog (the two programs share the file and their catalogs differ),
\* so that it records a name this catalog does not have, and a package whose
\* dependencies this catalog declares differently.
InitialDisks ==
    {[state |-> "absent", spliced |-> <<>>], [state |-> "ok", spliced |-> <<"ghost", "Y">>]}

StartWith(r) ==
    /\ runs = r
    /\ engine \in {"cli", "pkg"}
    /\ disk \in InitialDisks
    /\ dirs = {}
    /\ lib = {}
    /\ bin = {}
    /\ heap = <<>>
    /\ stack = <<>>
    /\ result = "none"
    /\ calls = 0
    /\ current = [name |-> "", disk |-> disk, dirs |-> {}, lib |-> {}, bin |-> {}]
    /\ prev = [name |-> "", result |-> "none"]
    /\ log = <<>>
    /\ glob = [active |-> FALSE, k |-> 1, success_count |-> 0]
    /\ initial = disk

Init == StartWith(MaxCalls)

\* main: `dna splice <name>` -> splice_package(name), config=None.
main_splice(n) ==
    /\ engine = "cli"
    /\ stack = <<>>
    /\ ~glob.active
    /\ calls < runs
    /\ Begin(n)
    /\ IF UnknownPackage(n)
       THEN /\ result' = "False"
            /\ log' = <<CallEv(n, 1), RetEv(n, FALSE, 1)>>
            /\ dirs' = splice_package_entry_dirs(n)
            /\ UNCHANGED <<disk, heap, stack, glob>>
       ELSE IF LoadRaises
       THEN /\ Crash(disk)
            /\ log' = <<CallEv(n, 1), LoadEv(n, 1), RaiseEv(n, "load", 1)>>
            /\ UNCHANGED <<dirs, heap>>
       ELSE /\ heap' = <<load_config>>
            /\ dirs' = splice_package_entry_dirs(n)
            /\ stack' = <<NewFrame(n, 1, 1, ToSet(load_config.spliced))>>
            /\ result' = "running"
            /\ log' = <<CallEv(n, 1), LoadEv(n, 1)>>
            /\ UNCHANGED <<disk, glob>>
    /\ UNCHANGED <<engine, lib, bin, initial, runs>>

\* One turn of `for dep in pkg.get("deps", [])`, the callee's entry included;
\* after the last turn the frame goes on to the files.
splice_package_deps ==
    /\ engine = "cli"
    /\ stack # <<>>
    /\ Top.pc = "deps"
    /\ LET f == Top
           deps == PACKAGES[f.name].deps
       IN  IF f.i > Len(deps)
           THEN /\ stack' = SetTop([f EXCEPT !.pc = "files"])
                /\ UNCHANGED <<dirs, log, disk, result, glob>>
           ELSE IF ~DepMissing(deps[f.i], heap[f.cfg])
           THEN /\ stack' = SetTop([f EXCEPT !.i = @ + 1])
                /\ UNCHANGED <<dirs, log, disk, result, glob>>
           ELSE IF UnknownPackage(deps[f.i])
           THEN /\ stack' = SetTop([f EXCEPT !.i = @ + 1])
                /\ log' = log \o <<CallEv(deps[f.i], Len(stack) + 1),
                                   RetEv(deps[f.i], FALSE, Len(stack) + 1)>>
                /\ dirs' = splice_package_entry_dirs(deps[f.i])
                /\ UNCHANGED <<disk, result, glob>>
           ELSE IF Len(stack) >= RecursionLimit
           THEN /\ Crash(disk)
                /\ log' = log \o <<CallEv(deps[f.i], Len(stack) + 1),
                                   RaiseEv(deps[f.i], "recursion", Len(stack) + 1)>>
                /\ UNCHANGED dirs
           ELSE /\ stack' = Append(stack, NewFrame(deps[f.i], f.cfg, Len(log) + 1,
                                                   ToSet(heap[f.cfg].spliced)))
                /\ dirs' = splice_package_entry_dirs(deps[f.i])
                /\ log' = Append(log, CallEv(deps[f.i], Len(stack) + 1))
                /\ UNCHANGED <<disk, result, glob>>
    /\ UNCHANGED <<engine, lib, bin, heap, calls, current, prev, initial, runs>>

\* One turn of `for file_path in pkg["files"]`.
splice_package_files ==
    /\ engine = "cli"
    /\ stack # <<>>
    /\ Top.pc = "files"
    /\ Top.j <= Len(PACKAGES[Top.name].files)
    /\ \E net \in [Endpoints -> BOOLEAN] :
          LET f == Top
              path == PACKAGES[f.name].files[f.j]
              att == cli_fetch(net)
          IN  /\ log' = log \o FetchEvs(f.name, path, att)
              /\ stack' = SetTop([f EXCEPT !.j = NextFileIndex(f, Fetched(att)),
                                            !.success = FileResult(@, Fetched(att)),
                                            !.got = IF Fetched(att) THEN @ \cup {f.j} ELSE @])
              /\ IF Fetched(att)
                 THEN /\ lib' = lib \cup {cli_dest(path)}
                      /\ bin' = bin \cup {PathStem(path)}
                 ELSE UNCHANGED <<lib, bin>>
    /\ UNCHANGED <<engine, disk, dirs, heap, result, calls, current, prev, glob, initial, runs>>

\* After the loop: `if success: ... append, save_config`, `return success`.
splice_package_finish ==
    /\ engine = "cli"
    /\ stack # <<>>
    /\ Top.pc = "files"
    /\ Top.j > Len(PACKAGES[Top.name].files)
    /\ LET f == Top
           config == heap[f.cfg]
           add == f.success /\ NotRecorded(f.name, config)
           config2 == Recorded(config, f.name)
       IN  IF add
           THEN \E io \in SaveOutcomes :
                   /\ heap' = [heap EXCEPT ![f.cfg] = config2]
                   /\ IF SaveRaises(io)
                      THEN /\ Crash(save_config(config2, io))
                           /\ log' = Append(log, RaiseEv(f.name, "save", Len(stack)))
                      ELSE /\ disk' = save_config(config2, io)
                           /\ log' = log \o <<SaveEv(f.name, Len(stack)),
                                              RetEv(f.name, TRUE, Len(stack))>>
                           /\ Return(TRUE)
           ELSE /\ log' = Append(log, RetEv(f.name, f.success, Len(stack)))
                /\ Return(f.success)
                /\ UNCHANGED <<disk, heap>>
    /\ UNCHANGED <<engine, dirs, lib, bin, calls, current, prev, initial, runs>>

\* main: `dna -i -g dna::}{::lang` -> install_global(): load_config() and the
\* stamps on the config object.
main_install_global ==
    /\ engine = "cli"
    /\ stack = <<>>
    /\ ~glob.active
    /\ calls < runs
    /\ Begin(SIGMA_S)
    /\ IF LoadRaises
       THEN /\ Crash(disk)
            /\ log' = <<CallEv(SIGMA_S, 0), LoadEv(SIGMA_S, 0), RaiseEv(SIGMA_S, "load", 0)>>
            /\ UNCHANGED heap
       ELSE /\ heap' = <<load_config>>
            /\ glob' = [active |-> TRUE, k |-> 1, success_count |-> 0]
            /\ result' = "running"
            /\ log' = <<CallEv(SIGMA_S, 0), LoadEv(SIGMA_S, 0)>>
            /\ UNCHANGED <<disk, stack>>
    /\ UNCHANGED <<engine, dirs, lib, bin, initial, runs>>

\* install_global: one turn of `for pkg in DNALANG_FULL` (the entry of
\* splice_package(pkg, config)); after the last turn save_config(config) and
\* the tally.
install_global_loop ==
    /\ engine = "cli"
    /\ glob.active
    /\ stack = <<>>
    /\ IF glob.k <= Len(DNALANG_FULL)
       THEN LET n == DNALANG_FULL[glob.k]
            IN  IF UnknownPackage(n)
                THEN /\ glob' = [glob EXCEPT !.k = install_global_next(@, FALSE),
                                             !.success_count = install_global_count(@, FALSE)]
                     /\ log' = log \o <<CallEv(n, 1), RetEv(n, FALSE, 1)>>
                     /\ dirs' = splice_package_entry_dirs(n)
                     /\ UNCHANGED <<stack, disk, result>>
                ELSE /\ stack' = <<NewFrame(n, 1, Len(log) + 1, ToSet(heap[1].spliced))>>
                     /\ log' = Append(log, CallEv(n, 1))
                     /\ dirs' = splice_package_entry_dirs(n)
                     /\ UNCHANGED <<glob, disk, result>>
       ELSE \E io \in SaveOutcomes :
               /\ IF SaveRaises(io)
                  THEN /\ Crash(save_config(heap[1], io))
                       /\ log' = Append(log, RaiseEv(SIGMA_S, "save", 0))
                  ELSE /\ disk' = save_config(heap[1], io)
                       /\ glob' = [glob EXCEPT !.active = FALSE]
                       /\ result' = "done"
                       /\ log' = Append(log, SaveEv(SIGMA_S, 0))
                       /\ UNCHANGED stack
               /\ UNCHANGED dirs
    /\ UNCHANGED <<engine, lib, bin, heap, calls, current, prev, initial, runs>>

(***************************************************************************)
(* dna_pkg_manager.py                                                      *)
(***************************************************************************)
\* main: `dna splice <name>` -> cmd_splice(name).
main_cmd_splice(n) ==
    /\ engine = "pkg"
    /\ stack = <<>>
    /\ calls < runs
    /\ Begin(n)
    /\ IF UnknownPackage(n)
       THEN /\ result' = "False"
            /\ log' = <<CallEv(n, 1), RetEv(n, FALSE, 1)>>
            /\ UNCHANGED <<disk, heap, stack, glob>>
       ELSE IF LoadRaises
       THEN /\ Crash(disk)
            /\ log' = <<CallEv(n, 1), LoadEv(n, 1), RaiseEv(n, "load", 1)>>
            /\ UNCHANGED heap
       ELSE /\ heap' = <<load_config>>
            /\ stack' = <<NewFrame(n, 1, 1, ToSet(load_config.spliced))>>
            /\ result' = "running"
            /\ log' = <<CallEv(n, 1), LoadEv(n, 1)>>
            /\ UNCHANGED <<disk, glob>>
    /\ UNCHANGED <<engine, dirs, lib, bin, initial, runs>>

\* One turn of `for dep in pkg["deps"]`, the callee's entry (its own
\* load_config()) included; after the last turn the directories are made.
cmd_splice_deps ==
    /\ engine = "pkg"
    /\ stack # <<>>
    /\ Top.pc = "deps"
    /\ LET f == Top
           deps == PACKAGES[f.name].deps
       IN  IF f.i > Len(deps)
           THEN /\ stack' = SetTop([f EXCEPT !.pc = "files"])
                /\ dirs' = dirs \cup cmd_splice_mkdirs
                /\ UNCHANGED <<heap, log, result, disk, glob>>
           ELSE IF ~DepMissing(deps[f.i], heap[f.cfg])
           THEN /\ stack' = SetTop([f EXCEPT !.i = @ + 1])
                /\ UNCHANGED <<dirs, heap, log, result, disk, glob>>
           ELSE IF UnknownPackage(deps[f.i])
           THEN /\ stack' = SetTop([f EXCEPT !.i = @ + 1])
                /\ log' = log \o <<CallEv(deps[f.i], Len(stack) + 1),
                                   RetEv(deps[f.i], FALSE, Len(stack) + 1)>>
                /\ UNCHANGED <<dirs, heap, result, disk, glob>>
           ELSE IF Len(stack) >= RecursionLimit
           THEN /\ Crash(disk)
                /\ log' = log \o <<CallEv(deps[f.i], Len(stack) + 1),
                                   RaiseEv(deps[f.i], "recursion", Len(stack) + 1)>>
                /\ UNCHANGED <<dirs, heap>>
           ELSE IF LoadRaises
           THEN /\ Crash(disk)
                /\ log' = log \o <<CallEv(deps[f.i], Len(stack) + 1),
                                   LoadEv(deps[f.i], Len(stack) + 1),
                                   RaiseEv(deps[f.i], "load", Len(stack) + 1)>>
                /\ UNCHANGED <<dirs, heap>>
           ELSE /\ heap' = Append(heap, load_config)
                /\ stack' = Append(stack, NewFrame(deps[f.i], Len(heap) + 1, Len(log) + 1,
                                                   ToSet(load_config.spliced)))
                /\ log' = log \o <<CallEv(deps[f.i], Len(stack) + 1),
                                   LoadEv(deps[f.i], Len(stack) + 1)>>
                /\ UNCHANGED <<dirs, result, disk, glob>>
    /\ UNCHANGED <<engine, lib, bin, calls, current, prev, initial, runs>>

\* One turn of `for file_path in pkg["files"]`.
cmd_splice_files ==
    /\ engine = "pkg"
    /\ stack # <<>>
    /\ Top.pc = "files"
    /\ Top.j <= Len(PACKAGES[Top.name].files)
    /\ \E net \in [Endpoints -> BOOLEAN] :
          LET f == Top
              path == PACKAGES[f.name].files[f.j]
              att == pkg_fetch(net)
          IN  /\ log' = log \o FetchEvs(f.name, path, att)
              /\ stack' = SetTop([f EXCEPT !.j = NextFileIndex(f, Fetched(att)),
                                            !.success = FileResult(@, Fetched(att)),
                                            !.got = IF Fetched(att) THEN @ \cup {f.j} ELSE @])
              /\ IF Fetched(att)
                 THEN lib' = lib \cup {pkg_dest(path)}
                 ELSE UNCHANGED lib
    /\ UNCHANGED <<engine, disk, dirs, bin, heap, result, calls, current, prev, glob, initial, runs>>

\* After the loop: `if success: ... append, save_config`, `return success`.
\* The frame's config object dies with the frame.
cmd_splice_finish ==
    /\ engine = "pkg"
    /\ stack # <<>>
    /\ Top.pc = "files"
    /\ Top.j > Len(PACKAGES[Top.name].files)
    /\ LET f == Top
           config == heap[f.cfg]
           add == f.success /\ NotRecorded(f.name, config)
           config2 == Recorded(config, f.name)
           drop(h) == IF Len(stack) = 1 THEN h ELSE SubSeq(h, 1, Len(h) - 1)
       IN  IF add
           THEN \E io \in SaveOutcomes :
                   /\ IF SaveRaises(io)
                      THEN /\ Crash(save_config(config2, io))
                           /\ heap' = [heap EXCEPT ![f.cfg] = config2]
                           /\ log' = Append(log, RaiseEv(f.name, "save", Len(stack)))
                      ELSE /\ disk' = save_config(config2, io)
                           /\ heap' = drop([heap EXCEPT ![f.cfg] = config2])
                           /\ log' = log \o <<SaveEv(f.name, Len(stack)),
                                              RetEv(f.name, TRUE, Len(stack))>>
                           /\ Return(TRUE)
           ELSE /\ log' = Append(log, RetEv(f.name, f.success, Len(stack)))
                /\ heap' = drop(heap)
                /\ Return(f.success)
                /\ UNCHANGED disk
    /\ UNCHANGED <<engine, dirs, lib, bin, calls, current, prev, initial, runs>>

Next ==
    \/ \E n \in Names : main_splice(n)
    \/ splice_package_deps
    \/ splice_package_files
    \/ splice_package_finish
    \/ main_install_global
    \/ install_global_loop
    \/ \E n \in Names : main_cmd_splice(n)
    \/ cmd_splice_deps
    \/ cmd_splice_files
    \/ cmd_splice_finish

Spec == Init /\ [][Next]_vars

(***************************************************************************)
(* Properties.                                                             *)
(***************************************************************************)
\* The top-level call has returned to main (it did not die of an exception).
Returned == stack = <<>> /\ result \in {"True", "False"}

FileIndices(n) == 1..Len(PACKAGES[n].files)

\* Name n is put into the spliced list of the state file or of a live config
\* object by this step.
AddedNow(n) ==
    \/ ~InList(n, disk.spliced) /\ InList(n, disk'.spliced)
    \/ /\ stack # <<>>
       /\ \E k \in DOMAIN heap \cap DOMAIN heap' :
             ~InList(n, heap[k].spliced) /\ InList(n, heap'[k].spliced)

\* The log, after position at, holds a successful fetch of file j of package n.
FetchedSince(n, j, at) ==
    \E k \in (at + 1)..Len(log) :
        /\ log[k].op = "fetch"
        /\ log[k].pkg = n
        /\ log[k].path = PACKAGES[n].files[j]
        /\ log[k].ok

\* C1: a name is added to the spliced list (in memory or in the state file)
\* only by the frame that processes that package, and only when every file of
\* the package was fetched successfully by that same frame.
C1_AddedOnlyAfterAllFiles ==
    [][\A n \in Names :
          AddedNow(n) =>
             /\ stack # <<>>
             /\ Top.name = n
             /\ Top.got = FileIndices(n)
             /\ \A j \in FileIndices(n) : FetchedSince(n, j, Top.at)]_vars

\* C1 witness: the two-file package A has just been recorded by a call that
\* started without it.
C1_Witness ==
    /\ Returned
    /\ result = "True"
    /\ current.name = "A"
    /\ ~InList("A", current.disk.spliced)
    /\ InList("A", disk.spliced)

\* The endpoint tried last: a file has failed when this one failed.
LastEndpoint == IF engine = "cli" THEN "github" ELSE "registry"

\* The log, after position at, holds the failure of a file of package n.
FileFailedSince(n, at) ==
    \E k \in (at + 1)..Len(log) :
        /\ log[k].op = "fetch"
        /\ log[k].pkg = n
        /\ log[k].ep = LastEndpoint
        /\ ~log[k].ok

FileFetchedSince(n, at) ==
    \E k \in (at + 1)..Len(log) : log[k].op = "fetch" /\ log[k].pkg = n /\ log[k].ok

\* This step returns from the innermost frame to its caller or to main.
ReturnsNow == stack # <<>> /\ Len(stack') < Len(stack) /\ result' # "crash"

\* C2 as stated: after a call install(P) during which a file of P failed, P
\* is not recorded, whatever the state the call started in.
C2_Original ==
    (Returned /\ FileFailedSince(current.name, 0)) => ~InList(current.name, disk.spliced)

\* C2 amended: a call install(P), top-level or nested, that starts with P not
\* recorded and during which a file of P fails returns with P recorded neither
\* in the state file nor in any live config object.
C2_FailedFileLeavesUnrecorded ==
    [][(/\ ReturnsNow
        /\ Top.name \notin Top.had
        /\ FileFailedSince(Top.name, Top.at))
          => /\ ~InList(Top.name, disk'.spliced)
             /\ \A k \in DOMAIN heap' : ~InList(Top.name, heap'[k].spliced)]_vars

\* C2 witness: install(A) returned with one file of A fetched and the other
\* failed, and A, not recorded before, is not recorded.
C2_Witness ==
    /\ Returned
    /\ current.name = "A"
    /\ ~InList("A", current.disk.spliced)
    /\ FileFetchedSince("A", 0)
    /\ FileFailedSince("A", 0)
    /\ ~InList("A", disk.spliced)

\* The position of dependency d in the declared list of package n.
DepIndex(n, d) == CHOOSE x \in 1..Len(PACKAGES[n].deps) : PACKAGES[n].deps[x] = d

\* Positions c < r of the log, both after `at` and before k, hold the call of d
\* and the return of that call.
InstalledBetween(d, at, k) ==
    \E c \in (at + 1)..(k - 1) : \E r \in (c + 1)..(k - 1) :
        /\ log[c].op = "call" /\ log[c].pkg = d
        /\ log[r].op = "ret" /\ log[r].pkg = d /\ log[r].depth = log[c].depth
        /\ \A m \in (c + 1)..(r - 1) : log[m].depth >= log[c].depth

\* For the frame at depth s: the first fetch of a file of its own package comes
\* after the finished install of every declared dependency that was not
\* recorded when the frame started, and nothing deeper happens after it.
DepsBeforeOwnFiles(s) ==
    LET f == stack[s]
        deps == PACKAGES[f.name].deps
    IN  \A k \in (f.at + 1)..Len(log) :
            (log[k].op = "fetch" /\ log[k].depth = s) =>
                /\ log[k].pkg = f.name
                /\ \A x \in 1..Len(deps) :
                      deps[x] \notin f.had => InstalledBetween(deps[x], f.at, k)
                /\ \A m \in (k + 1)..Len(log) : log[m].depth = s

\* For the frame at depth s: the installs it starts are of its declared
\* dependencies, in declared order, each one returned before the next starts.
DepsLeftToRight(s) ==
    LET f == stack[s]
        deps == PACKAGES[f.name].deps
        direct(c) == c > f.at /\ log[c].op = "call" /\ log[c].depth = s + 1
    IN  \A c \in 1..Len(log) :
            direct(c) =>
                /\ InList(log[c].pkg, deps)
                /\ \A c2 \in (c + 1)..Len(log) :
                      direct(c2) =>
                         /\ DepIndex(f.name, log[c].pkg) < DepIndex(f.name, log[c2].pkg)
                         /\ InstalledBetween(log[c].pkg, c - 1, c2)

\* C3: in every active call install(P), each declared dependency not recorded
\* at the start has been installed (called and returned, its own fetches
\* inside) before the first fetch of a file of P; dependencies are taken
\* depth-first in declared order.
C3_DependencyBeforeDependent ==
    \A s \in 1..Len(stack) : DepsBeforeOwnFiles(s) /\ DepsLeftToRight(s)

\* C3 witness: install(P) has tried its own file and failed, after D1 was
\* installed with success and D2 without.
C3_Witness ==
    /\ stack # <<>>
    /\ Top.name = "P"
    /\ Top.j = 2
    /\ ~Top.success
    /\ \E c \in 1..Len(log) : log[c] = RetEv("D1", TRUE, 2)
    /\ \E c \in 1..Len(log) : log[c] = RetEv("D2", FALSE, 2)

\* C4 as stated: when the install of a declared dependency (a package of the
\* catalog) returned failure during install(P), install(P) does not end with P
\* newly recorded as installed.
C4_Original ==
    (/\ Returned
     /\ ~InList(current.name, current.disk.spliced)
     /\ \E r \in 1..Len(log) :
           /\ log[r].op = "ret" /\ log[r].depth = 2 /\ ~log[r].ok
           /\ ~UnknownPackage(log[r].pkg))
       => ~InList(current.name, disk.spliced)

\* C5 as stated: within one top-level call, the files of a package that was
\* fully installed earlier in the call are not fetched again.
C5_Original ==
    \A r \in 1..Len(log) : \A k \in (r + 1)..Len(log) :
        (log[r].op = "ret" /\ log[r].ok /\ log[k].op = "fetch") => log[k].pkg # log[r].pkg

\* C9 as stated: when install(P) meets a declared dependency that is no key of
\* the catalog, it reports failure, fetches none of P's files and does not add P.
C9_Original ==
    (/\ Returned
     /\ \E c \in 1..Len(log) :
           log[c].op = "call" /\ log[c].depth = 2 /\ UnknownPackage(log[c].pkg))
       => /\ result = "False"
          /\ \A k \in 1..Len(log) : ~(log[k].op = "fetch" /\ log[k].pkg = current.name)
          /\ InList(current.name, disk.spliced) => InList(current.name, current.disk.spliced)

\* C10 as stated: when install(P) fails on a file of its own, every package
\* that was fully installed as a dependency during the call is recorded in the
\* state file when install(P) returns.
C10_Original ==
    (Returned /\ result = "False" /\ FileFailedSince(current.name, 0))
       => \A r \in 1..Len(log) :
             (log[r].op = "ret" /\ log[r].ok /\ log[r].depth > 1)
                => InList(log[r].pkg, disk.spliced)

\* How many times x occurs in list l.
Count(x, l) == Cardinality({k \in 1..Len(l) : l[k] = x})

\* The log holds an attempt to fetch file j of package n from the first endpoint.
Attempted(n, j) ==
    \E k \in 1..Len(log) :
        /\ log[k].op = "fetch"
        /\ log[k].pkg = n
        /\ log[k].path = PACKAGES[n].files[j]
        /\ log[k].ep = "registry"

\* The top-level call itself started an install of d.
CalledDirectly(d) ==
    \E c \in 1..Len(log) : log[c].op = "call" /\ log[c].depth = 2 /\ log[c].pkg = d

\* C6: no list of installed packages ever holds a name twice; and when
\* install(P) returns after an install(P) that succeeded right before it, P is
\* recorded exactly once, every file of P was attempted again, and the
\* dependencies skipped are those that were recorded.
C6_IdempotentReinstall ==
    /\ \A n \in Names : Count(n, disk.spliced) <= 1
    /\ \A k \in DOMAIN heap : \A n \in Names : Count(n, heap[k].spliced) <= 1
    /\ (Returned /\ calls >= 2 /\ prev.name = current.name /\ prev.result = "True")
          => LET n == current.name
             IN  /\ Count(n, disk.spliced) = 1
                 /\ Count(n, heap[1].spliced) = 1
                 /\ \A j \in FileIndices(n) : Attempted(n, j)
                 /\ \A x \in 1..Len(PACKAGES[n].deps) :
                       LET d == PACKAGES[n].deps[x]
                       IN  /\ InList(d, current.disk.spliced) => ~CalledDirectly(d)
                           /\ ~InList(d, heap[1].spliced) => CalledDirectly(d)

\* C6 witness: the second of two install(P) in a row has returned, the first
\* having succeeded and the second having failed on P's own file.
C6_Witness ==
    /\ Returned
    /\ calls = 2
    /\ prev.name = "P"
    /\ prev.result = "True"
    /\ current.name = "P"
    /\ result = "False"
    /\ Count("P", disk.spliced) = 1

\* The endpoints the running program is configured with, most preferred first.
ConfiguredEndpoints == IF engine = "cli" THEN <<"registry", "github">> ELSE <<"registry">>

EndpointIndex(ep) == CHOOSE x \in 1..Len(ConfiguredEndpoints) : ConfiguredEndpoints[x] = ep

\* Log entries a and b are attempts at the same file in the same frame.
SameFile(a, b) ==
    /\ a.op = "fetch" /\ b.op = "fetch"
    /\ a.pkg = b.pkg /\ a.path = b.path /\ a.depth = b.depth

\* The attempts in the log follow the preference order: an endpoint is tried
\* right after the one before it failed for the same file and never otherwise,
\* a failure moves on to the next endpoint, a success ends the attempts.
AttemptsInOrder ==
    \A k \in 1..Len(log) :
        log[k].op = "fetch" =>
            /\ InList(log[k].ep, ConfiguredEndpoints)
            /\ IF EndpointIndex(log[k].ep) = 1
               THEN k > 1 => ~SameFile(log[k - 1], log[k])
               ELSE /\ k > 1
                    /\ SameFile(log[k - 1], log[k])
                    /\ log[k - 1].ep = ConfiguredEndpoints[EndpointIndex(log[k].ep) - 1]
                    /\ ~log[k - 1].ok
            /\ IF log[k].ok \/ EndpointIndex(log[k].ep) = Len(ConfiguredEndpoints)
               THEN k < Len(log) => ~SameFile(log[k], log[k + 1])
               ELSE k < Len(log) /\ SameFile(log[k], log[k + 1])

\* What the innermost frame holds about the files it is through with agrees
\* with the attempts: a file counts as fetched iff one endpoint served it (and
\* then it is in place), as failed iff every endpoint failed.
FileOutcomes ==
    stack # <<>> =>
        LET f == Top
            files == PACKAGES[f.name].files
            dest(x) == IF engine = "cli" THEN cli_dest(files[x]) ELSE pkg_dest(files[x])
            failedAt(x, ep) ==
                \E k \in (f.at + 1)..Len(log) :
                    /\ log[k].op = "fetch" /\ log[k].pkg = f.name
                    /\ log[k].path = files[x] /\ log[k].ep = ep /\ ~log[k].ok
        IN  /\ f.success = (f.got = 1..(f.j - 1))
            /\ \A x \in 1..(f.j - 1) :
                  IF x \in f.got
                  THEN FetchedSince(f.name, x, f.at) /\ dest(x) \in lib
                  ELSE /\ ~FetchedSince(f.name, x, f.at)
                       /\ \A e \in 1..Len(ConfiguredEndpoints) :
                             failedAt(x, ConfiguredEndpoints[e])

\* C7: for each file the endpoints are tried in preference order, each at most
\* once, the next only after the one before failed; the first that succeeds
\* provides the file and the file is failed only when all have failed.
C7_FallbackOrder == AttemptsInOrder /\ FileOutcomes

\* C7 witness: the registry failed for E's file, GitHub served it, and the
\* frame counts the file as fetched.
C7_Witness ==
    /\ stack # <<>>
    /\ Top.name = "E"
    /\ Top.got = {1}
    /\ Top.success
    /\ Len(log) >= 2
    /\ log[Len(log) - 1] = Ev("fetch", "E", PACKAGES["E"].files[1], "registry", FALSE, Len(stack))
    /\ log[Len(log)] = Ev("fetch", "E", PACKAGES["E"].files[1], "github", TRUE, Len(stack))
    /\ cli_dest(PACKAGES["E"].files[1]) \in lib

\* C8: a top-level install of a name that is no key of the catalog returns
\* False at once: nothing is fetched, loaded or saved, no directory is made,
\* and the state file, the directories and the files are as they were when the
\* call started.
C8_UnknownPackageRejected ==
    (stack = <<>> /\ calls > 0 /\ current.name \in Names /\ UnknownPackage(current.name))
       => /\ result = "False"
          /\ log = <<CallEv(current.name, 1), RetEv(current.name, FALSE, 1)>>
          /\ disk = current.disk
          /\ dirs = current.dirs
          /\ lib = current.lib
          /\ bin = current.bin

\* C8 witness: install("ghost") was rejected in a state that has packages
\* recorded.
C8_Witness ==
    /\ stack = <<>>
    /\ calls = 2
    /\ current.name = "ghost"
    /\ result = "False"
    /\ disk.state = "ok"
    /\ Len(disk.spliced) > 0

(***************************************************************************)
(* install_global                                                          *)
(***************************************************************************)
\* The run in progress or just over is a global install whose load_config()
\* returned (the tally does not exist before).
GlobalRun ==
    /\ engine = "cli"
    /\ calls > 0
    /\ current.name = SIGMA_S
    /\ log[Len(log)] # RaiseEv(SIGMA_S, "load", 0)

\* The calls install_global itself made so far, and their returns.
IsTopCall(e) == e.op = "call" /\ e.depth = 1

IsTopRet(e) == e.op = "ret" /\ e.depth = 1

IsTopSuccess(e) == IsTopRet(e) /\ e.ok

TopCalls == SelectSeq(log, IsTopCall)

TopRets == SelectSeq(log, IsTopRet)

\* No file of the run failed on every endpoint.
NoFileFailed ==
    \A k \in 1..Len(log) :
        (log[k].op = "fetch" /\ ~log[k].ok) =>
            /\ k < Len(log)
            /\ log[k + 1].op = "fetch"
            /\ log[k + 1].pkg = log[k].pkg
            /\ log[k + 1].path = log[k].path

\* C11: install_global calls splice_package for the names of DNALANG_FULL in
\* list order, goes on after a call that returned False, and its tally is the
\* number of calls that returned True, between 0 and the length of the list;
\* once it is done every name of the list was called.  Started without a
\* state file, with no file failing on every endpoint, the tally is the
\* length of the list and the state file records exactly the list.
C11_InstallGlobalTally ==
    GlobalRun =>
        /\ Len(TopCalls) <= Len(DNALANG_FULL)
        /\ \A k \in 1..Len(TopCalls) : TopCalls[k].pkg = DNALANG_FULL[k]
        /\ \A k \in 1..Len(TopRets) : TopRets[k].pkg = DNALANG_FULL[k]
        /\ glob.success_count = Len(SelectSeq(log, IsTopSuccess))
        /\ glob.success_count <= Len(DNALANG_FULL)
        /\ (glob.active /\ stack = <<>>) =>
              /\ glob.k = Len(TopRets) + 1
              /\ Len(TopCalls) = Len(TopRets)
        /\ result = "done" =>
              /\ Len(TopRets) = Len(DNALANG_FULL)
              /\ (current.disk.state = "absent" /\ NoFileFailed) =>
                    /\ glob.success_count = Len(DNALANG_FULL)
                    /\ ToSet(disk.spliced) = ToSet(DNALANG_FULL)

\* A global install is done whose first package returned False and whose
\* second package was installed all the same.
C11_Witness ==
    /\ GlobalRun
    /\ result = "done"
    /\ ~TopRets[1].ok
    /\ TopRets[2].ok
    /\ glob.success_count = 1

(***************************************************************************)
(* State Store failures                                                    *)
(***************************************************************************)
\* The log holds an exception of the given kind.
Raised(what) == \E k \in 1..Len(log) : log[k].op = "raise" /\ log[k].ep = what

\* C12 (as stated): load_config() never raises; a run started on a state
\* file that is no JSON document goes on with the defaults.
C12_Original ==
    (calls > 0 /\ current.disk.state = "corrupt") => ~Raised("load")

\* The innermost call has fetched all files of n, n is not in its config
\* object, and this step leaves a state file that does not record n: the
\* save_config after the append failed.
RecordNotSaved(n) ==
    /\ stack # <<>>
    /\ Top.name = n
    /\ Top.pc = "files"
    /\ Top.j > Len(PACKAGES[n].files)
    /\ Top.success
    /\ ~InList(n, heap[Top.cfg].spliced)
    /\ ~(disk'.state = "ok" /\ InList(n, disk'.spliced))

\* C13: when save_config fails where a package is recorded, the call returns
\* nothing (no return of the package is logged, the exception is) and the
\* whole run ends with it: every enclosing call and the loop of
\* install_global are gone, the result is the crash.
C13_SaveFailureIsFatal ==
    [][\A n \in DOMAIN PACKAGES :
          RecordNotSaved(n) =>
              /\ result' = "crash"
              /\ stack' = <<>>
              /\ ~glob'.active
              /\ log' = Append(log, RaiseEv(n, "save", Len(stack)))]_vars

\* The save of a dependency failed inside a global install, which ended there.
C13_Witness ==
    /\ result = "crash"
    /\ current.name = SIGMA_S
    /\ log[Len(log)].op = "raise"
    /\ log[Len(log)].ep = "save"
    /\ log[Len(log)].depth = 2

(***************************************************************************)
(* The file loop                                                           *)
(***************************************************************************)
\* The last position at or before k of the log that holds a call of package n
\* at depth d: for the position of a return, the call it ends.
RECURSIVE CallBefore(_, _, _)
CallBefore(k, n, d) ==
    IF log[k].op = "call" /\ log[k].pkg = n /\ log[k].depth = d
    THEN k
    ELSE CallBefore(k - 1, n, d)

CallOf(r) == CallBefore(r, log[r].pkg, log[r].depth)

\* The files the frame at depth d started to fetch between positions from and
\* to of the log, in the order of their first attempts.
RECURSIVE FilesAttempted(_, _, _)
FilesAttempted(from, to, d) ==
    IF from > to
    THEN <<>>
    ELSE IF log[to].op = "fetch" /\ log[to].depth = d /\ log[to].ep = ConfiguredEndpoints[1]
    THEN Append(FilesAttempted(from, to - 1, d), log[to].path)
    ELSE FilesAttempted(from, to - 1, d)

\* Between positions from and to a file of the frame at depth d failed on the
\* last endpoint.
AFileFailed(from, to, d) ==
    \E k \in from..to :
        log[k].op = "fetch" /\ log[k].depth = d /\ log[k].ep = LastEndpoint /\ ~log[k].ok

\* C14: a call that returns (its return is the entry the step has just put
\* at the end of the log) has attempted every file of its package exactly
\* once, in the declared order, whether or not an earlier file failed, and it
\* returns True iff no file failed; a call still in its file loop has
\* attempted the files before the current one, each once and in order.
C14_FileLoopBestEffort ==
    /\ (Len(log) > 0 /\ log[Len(log)].op = "ret" /\ log[Len(log)].pkg \in DOMAIN PACKAGES) =>
          LET r == Len(log)
              c == CallOf(r)
          IN  /\ FilesAttempted(c, r, log[r].depth) = PACKAGES[log[r].pkg].files
              /\ log[r].ok = ~AFileFailed(c, r, log[r].depth)
    /\ \A s \in 1..Len(stack) :
          FilesAttempted(stack[s].at, Len(log), s)
             = SubSeq(PACKAGES[stack[s].name].files, 1, stack[s].j - 1)

\* install(A) returned False: the first file of A failed on every endpoint and
\* the second one was fetched after that.
C14_Witness ==
    /\ Returned
    /\ current.name = "A"
    /\ result = "False"
    /\ \E k \in 1..Len(log) :
          /\ log[k] = Ev("fetch", "A", PACKAGES["A"].files[1], LastEndpoint, FALSE, 1)
          /\ \E m \in (k + 1)..Len(log) :
                log[m].op = "fetch" /\ log[m].path = PACKAGES["A"].files[2] /\ log[m].ok

(***************************************************************************)
(* Writes of the state file                                                *)
(***************************************************************************)
\* The innermost call is at its record point: the file loop is over, every
\* file of the package was fetched and the package is not in the call's
\* config object.
AtRecordPoint ==
    /\ stack # <<>>
    /\ Top.pc = "files"
    /\ Top.j > Len(PACKAGES[Top.name].files)
    /\ Top.got = FileIndices(Top.name)
    /\ ~InList(Top.name, heap[Top.cfg].spliced)

\* A call of the run returned True for a package the state file did not
\* record when the run started.
NewlySucceeded ==
    \E r \in 1..Len(log) :
        log[r].op = "ret" /\ log[r].ok /\ ~InList(log[r].pkg, current.disk.spliced)

\* C15: inside a call of splice_package / cmd_splice the state file changes
\* only in the step at the record point of a package, and what is written
\* then is the call's list with the package appended (or the torn file); no
\* step of the file loop and no failed package writes.  So a returned run in
\* which no package newly succeeded leaves the state file as it was.
C15_WriteOnlyAtPackageSuccess ==
    [][/\ (disk' # disk /\ stack # <<>>) =>
              /\ AtRecordPoint
              /\ disk'.state = "ok" => disk'.spliced = Append(heap[Top.cfg].spliced, Top.name)
       /\ (Returned' /\ ~NewlySucceeded') => disk' = current'.disk]_vars

\* install(A) returned False after it fetched one file of A, and the state
\* file is the one the run started with.
C15_Witness ==
    /\ Returned
    /\ current.name = "A"
    /\ result = "False"
    /\ FileFetchedSince("A", 0)
    /\ ~NewlySucceeded
    /\ disk = current.disk

(***************************************************************************)
(* Termination                                                             *)
(***************************************************************************)
\* A run that was started goes on: the interpreter executes the next
\* statement of the innermost call or of install_global.  Nothing makes a
\* user start a run.
RunStep ==
    \/ splice_package_deps
    \/ splice_package_files
    \/ splice_package_finish
    \/ install_global_loop
    \/ cmd_splice_deps
    \/ cmd_splice_files
    \/ cmd_splice_finish

\* Termination is a property of one run: the runs looked at for it.
FairSpec == StartWith(MaxFairCalls) /\ [][Next]_vars /\ WF_vars(RunStep)

\* The declared dependencies of n that are keys of the catalog.
DepsOf(n) == IF n \in DOMAIN PACKAGES THEN ToSet(PACKAGES[n].deps) \cap DOMAIN PACKAGES ELSE {}

\* The packages reached from the set S by at most k dependency edges.
RECURSIVE ReachIn(_, _)
ReachIn(S, k) ==
    IF k = 0 THEN S ELSE ReachIn(S \cup UNION {DepsOf(m) : m \in S}, k - 1)

\* The packages n depends on, directly or not.
Reach(n) == ReachIn(DepsOf(n), Cardinality(DOMAIN PACKAGES))

\* The packages on a dependency cycle through n.
CycleOf(n) == {m \in Reach(n) : n \in Reach(m)}

\* The run in progress or just over installs a package on a dependency cycle
\* none of whose members the state file recorded when the run started.
OnUnrecordedCycle ==
    /\ calls > 0
    /\ current.name \in DOMAIN PACKAGES
    /\ current.disk.state # "corrupt"
    /\ CycleOf(current.name) # {}
    /\ CycleOf(current.name) \cap ToSet(current.disk.spliced) = {}

\* The run in progress or just over installs a package that reaches no cycle.
OnAcyclic ==
    /\ calls > 0
    /\ \A m \in DepsOf(current.name) \cup Reach(current.name) \cup {current.name} :
          m \in DOMAIN PACKAGES => CycleOf(m) = {}

Running == stack # <<>> \/ glob.active

\* C16: a run that reaches no dependency cycle ends, whatever the fetches do,
\* and never by the recursion limit; a run for a package on a cycle of
\* unrecorded packages fetches nothing, never returns, and nests its calls
\* until the interpreter's recursion limit, whatever it is, ends it.
C16_TerminatesUnlessCycle ==
    /\ [](OnAcyclic => ~Raised("recursion"))
    /\ (Running /\ OnAcyclic) ~> (~Running /\ ~Raised("recursion"))
    /\ [](OnUnrecordedCycle =>
             /\ ~Returned
             /\ \A k \in 1..Len(log) : log[k].op # "fetch")
    /\ (Running /\ OnUnrecordedCycle) ~>
          (result = "crash" /\ log[Len(log)].depth = RecursionLimit + 1
                            /\ log[Len(log)].ep = "recursion")

\* install(X), with X and Y on a cycle and not recorded, has nested its calls
\* up to the recursion limit and was ended there.
C16_Witness ==
    /\ OnUnrecordedCycle
    /\ current.name = "X"
    /\ result = "crash"
    /\ Raised("recursion")
    /\ \E k \in 1..Len(log) : log[k] = CallEv("X", RecursionLimit)

(***************************************************************************)
(* The recorded set                                                        *)
(***************************************************************************)
\* The spliced lists there are: of the state file and of the live config objects.
SplicedLists == {disk.spliced} \cup {heap[k].spliced : k \in DOMAIN heap}

\* C17: every name in a spliced list (of the state file or of a config
\* object) that the state file did not hold before the first run is a key of
\* the catalog; a name that is no key of the catalog and was there before the
\* first run is in every list of a readable state file and of a config object.
C17_OnlyCatalogKeysAdded ==
    /\ \A l \in SplicedLists :
          \A n \in ToSet(l) \ ToSet(initial.spliced) : n \in DOMAIN PACKAGES
    /\ \A n \in ToSet(initial.spliced) \ DOMAIN PACKAGES :
          /\ disk.state = "ok" => InList(n, disk.spliced)
          /\ \A k \in DOMAIN heap : InList(n, heap[k].spliced)

\* The state file held "ghost", no key of the catalog, before the first run;
\* install(U), whose dependency "ghost" is, recorded U and "ghost" is still there.
C17_Witness ==
    /\ Returned
    /\ InList("ghost", initial.spliced)
    /\ current.name = "U"
    /\ result = "True"
    /\ InList("ghost", disk.spliced)
    /\ InList("U", disk.spliced)

\* C18 (as stated): no write of the state file removes a name an earlier
\* write recorded.
C18_Original ==
    [][(disk.state = "ok" /\ disk'.state = "ok")
          => ToSet(disk.spliced) \subseteq ToSet(disk'.spliced)]_vars

\* dna_cli.py: a call splice_package(name) made by main, a call made by the
\* loop of install_global, or install_global itself has just returned.
CliReturned ==
    /\ engine = "cli"
    /\ calls > 0
    /\ stack = <<>>
    /\ \/ result \in {"True", "False"} /\ current.name \in DOMAIN PACKAGES
       \/ result = "done"
       \/ glob.active /\ Len(TopRets) > 0

\* C19: when a top-level call of splice_package or install_global returns,
\* the spliced list of the config object is the list a load_config() would read
\* from the state file now.
C19_MemoryEqualsDisk ==
    CliReturned =>
        /\ disk.state # "corrupt"
        /\ heap[1].spliced = load_config.spliced

\* install(P) returned True on no state file: P and its three dependencies
\* are in the config object and in the state file, in the order recorded.
C19_Witness ==
    /\ CliReturned
    /\ current.name = "P"
    /\ current.disk.state = "absent"
    /\ result = "True"
    /\ heap[1].spliced = <<"E", "D1", "D2", "P">>
    /\ disk.spliced = <<"E", "D1", "D2", "P">>

\* Where the running program puts a fetched file: its base name in LIB_DIR;
\* dna_pkg_manager.py puts a .dna file into ORGANISMS_DIR.
Destination(p) ==
    [dir |-> IF engine = "pkg" /\ EndsWithDna(p) THEN ORGANISMS_DIR ELSE LIB_DIR,
     name |-> PathName(p)]

\* C20: started with no state file and no files, every package in a spliced
\* list (of the state file or of a config object) is a key of the catalog and
\* each of its files is there, under its base name in its destination
\* directory.
C20_RecordedPackagesHaveFiles ==
    initial.state = "absent" =>
        \A l \in SplicedLists :
            \A n \in ToSet(l) :
                /\ n \in DOMAIN PACKAGES
                /\ \A j \in FileIndices(n) : Destination(PACKAGES[n].files[j]) \in lib

\* Started with nothing, dna_pkg_manager.py has recorded A: its .py file is
\* in LIB_DIR and its .dna file in ORGANISMS_DIR.
C20_Witness ==
    /\ initial.state = "absent"
    /\ engine = "pkg"
    /\ InList("A", disk.spliced)
    /\ [dir |-> LIB_DIR, name |-> [stem |-> "a", suffix |-> ".py"]] \in lib
    /\ [dir |-> ORGANISMS_DIR, name |-> [stem |-> "a", suffix |-> ".dna"]] \in lib

====
